---- MODULE Spec2Model ----
(***************************************************************************)
(* Model of molpal's model factory (molpal/models/__init__.py) and of the  *)
(* prediction evaluator (molpal/models/mpnn/evaluate.py).                  *)
(*                                                                         *)
(* Both units are call/return code without shared state.  Each is a small  *)
(* state machine: Init draws the arguments of one call, and one action per *)
(* entry point runs the whole call and records what it did (the value      *)
(* returned or the exception raised, the constructors invoked, the calls   *)
(* to metric_func, the warnings logged).                                   *)
(*                                                                         *)
(* Python lists are sequences indexed from 1, so example i of the source   *)
(* is index i+1 here and task j is index j+1.  Python list OBJECTS are     *)
(* kept in a heap (reference -> contents) wherever the code stores         *)
(* references to them, because `[[]] * n` yields n references to one list. *)
(***************************************************************************)
EXTENDS Integers, Sequences, FiniteSets, TLC

\* ---------------------------------------------------------------- bounds
MaxExamples == 3
MaxTasks == 3
\* examples * tasks of one call
MaxCells == 4

\* ------------------------------------------------------- value universes
\* Python's None in a target cell.  Targets and predictions are reals in
\* the code; only equality with 0 and with each other is ever examined, so
\* small naturals stand for them (2 stands for any value that is neither 0
\* nor 1, e.g. a probability of 0.3).
None == -1
PredVals == {0, 1, 2}
TargetVals == {None, 0, 1}
DatasetTypes == {"classification", "regression"}

Matrix(E, T, Vals) == [1..E -> [1..T -> Vals]]

VARIABLES
    pc,             \* "call" before the call, "done" after it, "idle" if unused
    preds,          \* argument preds   (data_size x num_tasks)
    targets,        \* argument targets (data_size x num_tasks), None = missing
    num_tasks,      \* argument num_tasks
    dataset_type,   \* argument dataset_type
    lists,          \* the list objects of the filtering phase (heap and references)
    results,        \* the list returned
    metric_calls,   \* every call made to metric_func, in order
    info_log,       \* every message passed to info(), in order
    task_events,    \* per iteration of the scoring loop, what it appended
    f_pc,           \* "call" / "done" / "idle" for the factory
    f_entry,        \* which factory function the caller calls
    f_model,        \* argument model of model()
    f_conf,         \* keyword conf_method (None when absent or None)
    f_ctor,         \* what the selected constructor does when invoked
    f_calls,        \* constructors invoked, in order
    f_outcome       \* what the call gave the caller

evalVars == <<pc, preds, targets, num_tasks, dataset_type, lists, results,
              metric_calls, info_log, task_events>>
factVars == <<f_pc, f_entry, f_model, f_conf, f_ctor, f_calls, f_outcome>>
vars == <<evalVars, factVars>>

\* ======================================================================
\* evaluate_predictions
\* ======================================================================

\* float('nan')
NaN == [kind |-> "nan", targets |-> <<>>, preds |-> <<>>]

\* metric_func is an external collaborator: its value is kept symbolic, as
\* the pair of lists it was applied to.
metric_func(ts, ps) == [kind |-> "score", targets |-> ts, preds |-> ps]

\* [float('nan')] * num_tasks
NanList(n) == [k \in 1..n |-> NaN]

\* [[]] * n : the literal [] is evaluated once, giving ONE list object, and
\* the outer list holds n references to it.
ListRepeat(ref, n) == [k \in 1..n |-> ref]

PredsRef == 1
TargetsRef == 2

\* valid_preds = [[]] * num_tasks ; valid_targets = [[]] * num_tasks
NewLists(n) ==
    [heap          |-> [r \in {PredsRef, TargetsRef} |-> <<>>],
     valid_preds   |-> ListRepeat(PredsRef, n),
     valid_targets |-> ListRepeat(TargetsRef, n)]

\* state of the list objects before the filtering phase has run
NoLists == [heap |-> <<>>, valid_preds |-> <<>>, valid_targets |-> <<>>]

\* body of the inner loop: one (i, j) cell
FilterCell(st, P, G, i, j) ==
    IF G[i][j] = None
    THEN st
    ELSE LET afterPreds ==
                 [st EXCEPT !.heap[st.valid_preds[j]] = Append(@, P[i][j])]
         IN  [afterPreds EXCEPT
                 !.heap[afterPreds.valid_targets[j]] = Append(@, G[i][j])]

\* for i in range(len(preds)): cells i..E of task j
RECURSIVE FilterExamples(_, _, _, _, _)
FilterExamples(st, P, G, i, j) ==
    IF i > Len(P) THEN st
    ELSE FilterExamples(FilterCell(st, P, G, i, j), P, G, i + 1, j)

\* for j in range(num_tasks): tasks j..T
RECURSIVE FilterTasks(_, _, _, _, _)
FilterTasks(st, P, G, j, T) ==
    IF j > T THEN st
    ELSE FilterTasks(FilterExamples(st, P, G, 1, j), P, G, j + 1, T)

\* all(x == 0 for x in s)
AllEqZero(s) == \A k \in 1..Len(s) : s[k] = 0
\* all(s): every element is truthy, i.e. non-zero
AllTruthy(s) == \A k \in 1..Len(s) : s[k] # 0

TargetsWarning == "Warning: Found a task with targets all 0s or all 1s"
PredsWarning == "Warning: Found a task with predictions all 0s or all 1s"

NoScores == [results |-> <<>>, calls |-> <<>>, log |-> <<>>, events |-> <<>>]

\* ScoreTask without the `if len(targets) == 0: continue` test
ScoreTaskNoSkip(acc, ps, ts, dt) ==
    IF dt = "classification" /\ (AllEqZero(ts) \/ AllTruthy(ts))
    THEN [acc EXCEPT !.log = Append(@, TargetsWarning),
                     !.results = Append(@, NaN),
                     !.events = Append(@, "nan_targets")]
    ELSE IF dt = "classification" /\ (AllEqZero(ps) \/ AllTruthy(ps))
    THEN [acc EXCEPT !.log = Append(@, PredsWarning),
                     !.results = Append(@, NaN),
                     !.events = Append(@, "nan_preds")]
    ELSE [acc EXCEPT !.calls = Append(@, [targets |-> ts, preds |-> ps]),
                     !.results = Append(@, metric_func(ts, ps)),
                     !.events = Append(@, "score")]

\* body of the scoring loop for the pair (ps, ts) = (valid_preds[j], valid_targets[j])
ScoreTask(acc, ps, ts, dt) ==
    IF dt = "classification" /\ (AllEqZero(ts) \/ AllTruthy(ts))
    THEN [acc EXCEPT !.log = Append(@, TargetsWarning),
                     !.results = Append(@, NaN),
                     !.events = Append(@, "nan_targets")]
    ELSE IF dt = "classification" /\ (AllEqZero(ps) \/ AllTruthy(ps))
    THEN [acc EXCEPT !.log = Append(@, PredsWarning),
                     !.results = Append(@, NaN),
                     !.events = Append(@, "nan_preds")]
    ELSE IF Len(ts) = 0
    THEN [acc EXCEPT !.events = Append(@, "skip")]
    ELSE [acc EXCEPT !.calls = Append(@, [targets |-> ts, preds |-> ps]),
                     !.results = Append(@, metric_func(ts, ps)),
                     !.events = Append(@, "score")]

\* for preds, targets in zip(valid_preds, valid_targets): pairs j..T
RECURSIVE ScoreTasks(_, _, _, _)
ScoreTasks(acc, st, j, dt) ==
    IF j > Len(st.valid_preds) THEN acc
    ELSE ScoreTasks(ScoreTask(acc, st.heap[st.valid_preds[j]],
                              st.heap[st.valid_targets[j]], dt),
                    st, j + 1, dt)

\* evaluate_predictions without the `if len(preds) == 0` fast path
evaluate_predictions_no_fast_path(P, G, T, dt) ==
    LET st  == FilterTasks(NewLists(T), P, G, 1, T)
        acc == ScoreTasks(NoScores, st, 1, dt)
    IN  [lists |-> st, results |-> acc.results, calls |-> acc.calls,
         log |-> acc.log, events |-> acc.events]

\* the whole function: what it returns and what it did on the way
evaluate_predictions(P, G, T, dt) ==
    IF Len(P) = 0
    THEN [lists |-> NoLists, results |-> NanList(T), calls |-> <<>>,
          log |-> <<>>, events |-> <<>>]
    ELSE LET st  == FilterTasks(NewLists(T), P, G, 1, T)
             acc == ScoreTasks(NoScores, st, 1, dt)
         IN  [lists |-> st, results |-> acc.results, calls |-> acc.calls,
              log |-> acc.log, events |-> acc.events]

\* nothing returned or raised yet
NoOutcome == [kind |-> "none", cls |-> "none", conf |-> "None", msg |-> <<>>]

FactoryIdle ==
    /\ f_pc = "idle" /\ f_entry = "none" /\ f_model = "none" /\ f_conf = "None"
    /\ f_ctor = "ok" /\ f_calls = <<>> /\ f_outcome = NoOutcome

EvalInit ==
    /\ \E E \in 0..MaxExamples, T \in 0..MaxTasks :
          /\ E * T <= MaxCells
          /\ preds \in Matrix(E, T, PredVals)
          /\ targets \in Matrix(E, T, TargetVals)
          /\ num_tasks = T
    /\ dataset_type \in DatasetTypes
    /\ pc = "call"
    /\ lists = NoLists
    /\ results = <<>>
    /\ metric_calls = <<>>
    /\ info_log = <<>>
    /\ task_events = <<>>
    /\ FactoryIdle

Evaluate ==
    /\ pc = "call"
    /\ LET r == evaluate_predictions(preds, targets, num_tasks, dataset_type)
       IN  /\ lists' = r.lists
           /\ results' = r.results
           /\ metric_calls' = r.calls
           /\ info_log' = r.log
           /\ task_events' = r.events
    /\ pc' = "done"
    /\ UNCHANGED <<preds, targets, num_tasks, dataset_type, factVars>>


\* ======================================================================
\* The model factory: model(), nn(), mpn()
\* ======================================================================

\* the model keys and confidence methods a caller may pass; "bogus" stands
\* for any string the factory does not know, "None" for Python's None (also
\* the default of conf_method when the keyword is absent)
ModelArgs == {"rf", "gp", "nn", "mpn", "bogus"}
ConfArgs == {"None", "dropout", "ensemble", "twooutput", "mve", "none", "bogus"}
\* what a model constructor does when invoked: the classes live outside this
\* package, so a constructor may return an instance or raise
CtorBehaviours == {"ok", "KeyError", "ValueError"}

\* the dict of nn() with the 'mve' entry left out
NNTableNoMve ==
    [dropout   |-> "NNDropoutModel",
     ensemble  |-> "NNEnsembleModel",
     twooutput |-> "NNTwoOutputModel",
     none      |-> "NNModel"]

\* the dict literal of nn()
NNTable ==
    [dropout   |-> "NNDropoutModel",
     ensemble  |-> "NNEnsembleModel",
     twooutput |-> "NNTwoOutputModel",
     mve       |-> "NNTwoOutputModel",
     none      |-> "NNModel"]

\* the dict of mpn() with an 'ensemble' entry, as in nn()
MPNTableWithEnsemble ==
    [dropout   |-> "MPNDropoutModel",
     ensemble  |-> "MPNEnsembleModel",
     twooutput |-> "MPNTwoOutputModel",
     mve       |-> "MPNTwoOutputModel",
     none      |-> "MPNModel"]

\* the dict literal of mpn()
MPNTable ==
    [dropout   |-> "MPNDropoutModel",
     twooutput |-> "MPNTwoOutputModel",
     mve       |-> "MPNTwoOutputModel",
     none      |-> "MPNModel"]

Returned(cls, conf) == [kind |-> "instance", cls |-> cls, conf |-> conf, msg |-> <<>>]
Raised(exc, msg) == [kind |-> "raise", cls |-> exc, conf |-> "None", msg |-> msg]

\* Cls(conf_method=conf, **kwargs): the constructor call, recorded in calls;
\* conf is "absent" when the keyword is not passed
Construct(cls, conf, b) ==
    [calls   |-> <<[cls |-> cls, conf |-> conf]>>,
     outcome |-> IF b = "ok" THEN Returned(cls, conf) ELSE Raised(b, <<cls>>)]

NoConstruct(outcome) == [calls |-> <<>>, outcome |-> outcome]

\* try: return table[conf_method](conf_method=conf_method, **kwargs)
\* except KeyError: raise NotImplementedError(message)
\* The try block holds the lookup AND the constructor call, so a KeyError
\* from either is caught.
TryLookup(table, conf, b, message) ==
    LET attempt == IF conf \in DOMAIN table
                   THEN Construct(table[conf], conf, b)
                   ELSE NoConstruct(Raised("KeyError", <<conf>>))
    IN  IF attempt.outcome.kind = "raise" /\ attempt.outcome.cls = "KeyError"
        THEN [attempt EXCEPT !.outcome = Raised("NotImplementedError", <<message, conf>>)]
        ELSE attempt

nn(conf, b) ==
    IF conf = "None"
    THEN Construct("NNModel", "absent", b)
    ELSE TryLookup(NNTable, conf, b, "Unrecognized NN confidence method")

mpn(conf, b) ==
    IF conf = "None"
    THEN Construct("MPNModel", "absent", b)
    ELSE TryLookup(MPNTable, conf, b, "Unrecognized MPN confidence method")

\* model(model, **kwargs); conf is the conf_method entry of kwargs ("None"
\* when kwargs has none or holds None: nn/mpn cannot tell the two apart, and
\* for rf/gp the keyword is handed to the constructor as it is)
model(m, conf, b) ==
    IF m = "rf" THEN Construct("RFModel", conf, b)
    ELSE IF m = "gp" THEN Construct("GPModel", conf, b)
    ELSE IF m = "nn" THEN nn(conf, b)
    ELSE IF m = "mpn" THEN mpn(conf, b)
    ELSE NoConstruct(Raised("NotImplementedError", <<"Unrecognized model", m>>))

EvalIdle ==
    /\ pc = "idle" /\ preds = <<>> /\ targets = <<>> /\ num_tasks = 0
    /\ dataset_type = "regression" /\ lists = NoLists /\ results = <<>>
    /\ metric_calls = <<>> /\ info_log = <<>> /\ task_events = <<>>

FactoryInit ==
    /\ f_entry \in {"model", "nn", "mpn"}
    /\ f_model \in IF f_entry = "model" THEN ModelArgs ELSE {"none"}
    /\ f_conf \in ConfArgs
    /\ f_ctor \in CtorBehaviours
    /\ f_pc = "call"
    /\ f_calls = <<>>
    /\ f_outcome = NoOutcome
    /\ EvalIdle

Finish(r) ==
    /\ f_calls' = r.calls
    /\ f_outcome' = r.outcome
    /\ f_pc' = "done"
    /\ UNCHANGED <<f_entry, f_model, f_conf, f_ctor, evalVars>>

CallModel == f_pc = "call" /\ f_entry = "model" /\ Finish(model(f_model, f_conf, f_ctor))
CallNN == f_pc = "call" /\ f_entry = "nn" /\ Finish(nn(f_conf, f_ctor))
CallMPN == f_pc = "call" /\ f_entry = "mpn" /\ Finish(mpn(f_conf, f_ctor))


\* one call of either unit
Init == EvalInit \/ FactoryInit
Next == Evaluate \/ CallModel \/ CallNN \/ CallMPN
Spec == Init /\ [][Next]_vars

\* ======================================================================
\* Properties of evaluate_predictions
\* ======================================================================

Evaluated == pc = "done"
SomeExamples == Len(preds) > 0
Tasks == 1..num_tasks

\* the entries M[i][j], i = from..E, of the examples whose target for task j
\* is not missing, in example order
RECURSIVE TaskColumn(_, _, _)
TaskColumn(M, j, from) ==
    IF from > Len(targets) THEN <<>>
    ELSE IF targets[from][j] = None THEN TaskColumn(M, j, from + 1)
    ELSE <<M[from][j]>> \o TaskColumn(M, j, from + 1)

\* the valid pairs of task j, read off the arguments
TaskTargets(j) == TaskColumn(targets, j, 1)
TaskPreds(j) == TaskColumn(preds, j, 1)

\* the lists the code holds for task j after filtering
HandedTargets(j) == lists.heap[lists.valid_targets[j]]
HandedPreds(j) == lists.heap[lists.valid_preds[j]]

AllZero(s) == \A k \in 1..Len(s) : s[k] = 0
AllOne(s) == \A k \in 1..Len(s) : s[k] = 1

\* C1: with at least one example, the lists kept for task j are exactly the
\* non-missing targets of column j and the matching predictions, in example
\* order, with nothing from another column.
C1_PerTaskLists ==
    (Evaluated /\ SomeExamples) =>
        \A j \in Tasks : /\ HandedTargets(j) = TaskTargets(j)
                         /\ HandedPreds(j) = TaskPreds(j)

\* the scores of tasks from..T that have a non-missing target, each from the
\* task's own pairs, in task order
RECURSIVE OwnScores(_)
OwnScores(from) ==
    IF from > num_tasks THEN <<>>
    ELSE IF TaskTargets(from) = <<>> THEN OwnScores(from + 1)
    ELSE <<metric_func(TaskTargets(from), TaskPreds(from))>> \o OwnScores(from + 1)

\* C2: for regression with at least one example, the result holds one score
\* per task that has a non-missing target, computed from that task's own
\* pairs, in task order, and nothing for a task whose targets are all missing.
C2_RegressionOmitsEmptyTasks ==
    (Evaluated /\ SomeExamples /\ dataset_type = "regression") =>
        results = OwnScores(1)

\* C3: for classification, a task whose non-missing targets are all 0 or all
\* 1 gets the not-a-number sentinel, whatever the other tasks hold, and
\* metric_func is not called for it.
C3_SingleClassTargetsGiveNaN ==
    (Evaluated /\ dataset_type = "classification") =>
        \A j \in Tasks :
            (AllZero(TaskTargets(j)) \/ AllOne(TaskTargets(j))) =>
                /\ j \in DOMAIN results
                /\ results[j] = NaN
                /\ ~(j \in DOMAIN task_events /\ task_events[j] = "score")

\* C4: for classification, task j gets the sentinel only when the targets
\* kept for it are all 0 or all 1 or the predictions kept for it are all 0 or
\* all 1; otherwise it gets metric_func(valid_targets[j], valid_preds[j]).
C4_GuardOnlyOnAllZeroOrAllOne ==
    (Evaluated /\ SomeExamples /\ dataset_type = "classification") =>
        \A j \in Tasks :
            /\ j \in DOMAIN results
            /\ IF \/ AllZero(HandedTargets(j)) \/ AllOne(HandedTargets(j))
                  \/ AllZero(HandedPreds(j)) \/ AllOne(HandedPreds(j))
               THEN results[j] = NaN
               ELSE results[j] = metric_func(HandedTargets(j), HandedPreds(j))

\* C5: for every dataset type, with at least one example, a task whose
\* targets are missing in every example appends nothing to the result,
\* neither a score nor a sentinel.
C5_EmptyTaskAppendsNothing ==
    (Evaluated /\ SomeExamples) =>
        \A j \in Tasks : TaskTargets(j) = <<>> => task_events[j] = "skip"

\* C6: with zero examples the result is exactly num_tasks sentinels, for any
\* task count and dataset type, and nothing is filtered, scored or logged.
C6_NoExamplesGiveAllNaN ==
    (Evaluated /\ ~SomeExamples) =>
        /\ Len(results) = num_tasks
        /\ \A k \in 1..Len(results) : results[k] = NaN
        /\ lists = NoLists
        /\ metric_calls = <<>>
        /\ info_log = <<>>
        /\ task_events = <<>>

C6_Witness ==
    /\ Evaluated /\ ~SomeExamples
    /\ num_tasks = 2 /\ dataset_type = "classification"
    /\ results = <<NaN, NaN>>

\* C9: every call to metric_func passes a non-empty target list, a
\* prediction list of the same length, and no missing marker among the
\* targets.
C9_MetricCallsWellFormed ==
    \A c \in 1..Len(metric_calls) :
        /\ Len(metric_calls[c].targets) > 0
        /\ Len(metric_calls[c].preds) = Len(metric_calls[c].targets)
        /\ \A k \in 1..Len(metric_calls[c].targets) :
              metric_calls[c].targets[k] # None

\* a call that reached metric_func on arguments that hold a missing target
\* and a present one
C9_Witness ==
    /\ Evaluated
    /\ Len(metric_calls) > 0
    /\ \E i \in 1..Len(targets) : \E j \in Tasks : targets[i][j] = None
    /\ \E i \in 1..Len(targets) : \E j \in Tasks : targets[i][j] # None

\* ======================================================================
\* Properties of the factory
\* ======================================================================

Called == f_pc = "done"
\* the call reaches nn() / mpn(), directly or through model()
ReachesNN == f_entry = "nn" \/ (f_entry = "model" /\ f_model = "nn")
ReachesMPN == f_entry = "mpn" \/ (f_entry = "model" /\ f_model = "mpn")

NotImplemented(message, key) ==
    /\ f_outcome.kind = "raise"
    /\ f_outcome.cls = "NotImplementedError"
    /\ f_outcome.msg = <<message, key>>

\* C7: an unknown model key, or a conf_method unknown to nn() or to mpn(),
\* fails with NotImplementedError naming the key, and no constructor runs.
C7_UnrecognizedIsRejected ==
    Called =>
        /\ (f_entry = "model" /\ f_model \notin {"rf", "gp", "nn", "mpn"}) =>
              /\ NotImplemented("Unrecognized model", f_model)
              /\ f_calls = <<>>
        /\ (ReachesNN /\ f_conf \notin
                {"None", "dropout", "ensemble", "twooutput", "mve", "none"}) =>
              /\ NotImplemented("Unrecognized NN confidence method", f_conf)
              /\ f_calls = <<>>
        /\ (ReachesMPN /\ f_conf \notin
                {"None", "dropout", "twooutput", "mve", "none"}) =>
              /\ NotImplemented("Unrecognized MPN confidence method", f_conf)
              /\ f_calls = <<>>

\* mpn() refusing the ensemble method that nn() accepts
C7_Witness ==
    /\ Called /\ f_entry = "mpn" /\ f_conf = "ensemble"
    /\ f_outcome.cls = "NotImplementedError" /\ f_calls = <<>>

\* the variant each recognized conf_method selects
Variant(family, conf) ==
    CASE conf \in {"None", "none"}      -> family \o "Model"
      [] conf = "dropout"               -> family \o "DropoutModel"
      [] conf \in {"twooutput", "mve"}  -> family \o "TwoOutputModel"
      [] conf = "ensemble"              -> family \o "EnsembleModel"

\* the class a recognized configuration selects, "" when unrecognized
Selected ==
    IF f_entry = "model" /\ f_model = "rf" THEN "RFModel"
    ELSE IF f_entry = "model" /\ f_model = "gp" THEN "GPModel"
    ELSE IF ReachesNN /\ f_conf \in
              {"None", "dropout", "ensemble", "twooutput", "mve", "none"}
    THEN Variant("NN", f_conf)
    ELSE IF ReachesMPN /\ f_conf \in {"None", "dropout", "twooutput", "mve", "none"}
    THEN Variant("MPN", f_conf)
    ELSE ""

\* C8: a recognized configuration invokes exactly one constructor, that of
\* the variant the keys select, and returns its instance when the constructor
\* succeeds; model("nn") and model("mpn") give what nn() and mpn() give.
C8_RecognizedBuildsSelectedVariant ==
    Called =>
        /\ Selected # "" =>
              /\ Len(f_calls) = 1
              /\ f_calls[1].cls = Selected
              /\ f_ctor = "ok" => (f_outcome.kind = "instance" /\ f_outcome.cls = Selected)
        /\ (f_entry = "model" /\ f_model = "nn") =>
              (f_calls = nn(f_conf, f_ctor).calls /\ f_outcome = nn(f_conf, f_ctor).outcome)
        /\ (f_entry = "model" /\ f_model = "mpn") =>
              (f_calls = mpn(f_conf, f_ctor).calls /\ f_outcome = mpn(f_conf, f_ctor).outcome)

C8_Witness ==
    /\ Called /\ f_entry = "model" /\ f_model = "nn" /\ f_conf = "mve"
    /\ f_ctor = "ok" /\ f_outcome.cls = "NNTwoOutputModel"

\* C10: nn() and mpn() report an unrecognized confidence method only when
\* conf_method is not a key of their table; a KeyError raised by the selected
\* constructor reaches the caller as that KeyError.
C10_ConstructorKeyErrorPropagates ==
    (Called /\ (ReachesNN \/ ReachesMPN)) =>
        /\ (/\ f_outcome.cls = "NotImplementedError"
            /\ f_outcome.msg # <<>>
            /\ f_outcome.msg[1] \in {"Unrecognized NN confidence method",
                                     "Unrecognized MPN confidence method"}) =>
              f_conf \notin (IF ReachesNN THEN DOMAIN NNTable ELSE DOMAIN MPNTable)
        /\ (Len(f_calls) = 1 /\ f_ctor = "KeyError") =>
              (f_outcome.kind = "raise" /\ f_outcome.cls = "KeyError")

====
